---- MODULE Spec2Model ----
(***************************************************************************)
(* A model of src/src/api.rs (mediawiki_rust): the continuation loop       *)
(* Api::get_query_api_json_all, the deep merge Api::json_merge, the single *)
(* request path query_api_json / query_raw and the cookie jar.             *)
(***************************************************************************)
EXTENDS Integers, Sequences, FiniteSets, TLC

VARIABLES
    \* ---- Api state and one call of get_query_api_json_all / query_api_json
    cookie_jar,   \* Api.cookie_jar: cookie name -> [value, path]
    call,         \* which entry point is running or ran last
    pc,           \* "idle", "loop" (inside the loop of get_query_api_json_all), "done"
    params,       \* the caller's parameter map (borrowed, &HashMap)
    cont,         \* local `cont` of get_query_api_json_all
    ret,          \* local `ret` of get_query_api_json_all
    outcome,      \* "none", "Ok", "Err" or "panic"
    returned,     \* the Value inside Ok(..), NoValue otherwise
    requests,     \* the requests sent by the current call, in order
    pages,        \* the responses received by the current call, in order
    lastSet,      \* history: cookie name -> value of the latest set-cookie directive
    \* ---- a sequence of json_merge calls on one target
    mTarget,      \* the target `a` of json_merge
    mIncoming,    \* the values still to be merged into it, in order
    mStart,       \* history: <<initial target, initial incoming values>>
    \* ---- the login data
    user,         \* Api.user: MWuser [lgusername, lguserid, is_logged_in]
    loginIn,      \* history: the argument of the last set_from_login call
    loginOut,     \* history: what that call returned, "none", "Ok" or "Err"
    userBefore,   \* history: the user record when that call began
    okLogin,      \* history: the last Success login that set_from_login accepted
    \* ---- the remote API
    script        \* the responses a scripted server still has to give, in order

vars == <<cookie_jar, call, pc, params, cont, ret, outcome, returned, requests,
          pages, lastSet, mTarget, mIncoming, mStart,
          user, loginIn, loginOut, userBefore, okLogin, script>>

apiVars == <<cookie_jar, call, pc, params, cont, ret, outcome, returned,
             requests, pages, lastSet>>

mergeVars == <<mTarget, mIncoming, mStart>>

loginVars == <<user, loginIn, loginOut, userBefore, okLogin>>

loginHistory == <<loginIn, loginOut, userBefore, okLogin>>

serverVars == <<script>>

(***************************************************************************)
(* Bounds.                                                                 *)
(***************************************************************************)
\* longest array drawn as an input of json_merge
MaxArr == 1
\* most requests one call of get_query_api_json_all may send in the model
MaxPages == 3

(***************************************************************************)
(* serde_json::Value: a record [t, v], t the variant and v its payload.    *)
(* An Object's payload is a function from its keys, an Array's a sequence. *)
(***************************************************************************)
Null == [t |-> "null", v |-> ""]
Bool(b) == [t |-> "bool", v |-> b]
Num(n) == [t |-> "num", v |-> n]
Str(s) == [t |-> "str", v |-> s]
Obj(f) == [t |-> "obj", v |-> f]
Arr(s) == [t |-> "arr", v |-> s]

EmptyMap == << >>
EmptyObj == Obj(EmptyMap)
EmptyArr == Arr(<< >>)

\* what a caller holds when no Value was returned (an Err, or nothing yet)
NoValue == [t |-> "none", v |-> ""]

Keys(x) == IF x.t = "obj" THEN DOMAIN x.v ELSE {}

\* serde_json's `value[key]` for a &str key: Null unless an object with the key
Index(x, key) == IF key \in Keys(x) THEN x.v[key] ELSE Null

RECURSIVE json_merge(_, _)

\* a merge that inserts the Null placeholder for a new key and then forgets the value
json_merge_new_key_null(a, b) ==
    IF a.t = "obj" /\ b.t = "obj"
    THEN Obj([k \in DOMAIN a.v \cup DOMAIN b.v |->
                IF k \in DOMAIN a.v
                THEN (IF k \in DOMAIN b.v THEN json_merge(a.v[k], b.v[k]) ELSE a.v[k])
                ELSE Null])
    ELSE IF a.t = "arr" /\ b.t = "arr"
    THEN Arr(a.v \o b.v)
    ELSE b

\* a merge that replaces an array instead of extending it
json_merge_array_replaced(a, b) ==
    IF a.t = "obj" /\ b.t = "obj"
    THEN Obj([k \in DOMAIN a.v \cup DOMAIN b.v |->
                IF k \in DOMAIN b.v
                THEN json_merge(IF k \in DOMAIN a.v THEN a.v[k] ELSE Null, b.v[k])
                ELSE a.v[k]])
    ELSE b

\* a merge that lets a null incoming value leave the target alone
json_merge_null_skipped(a, b) ==
    IF a.t = "obj" /\ b.t = "obj"
    THEN Obj([k \in DOMAIN a.v \cup DOMAIN b.v |->
                IF k \in DOMAIN b.v
                THEN json_merge(IF k \in DOMAIN a.v THEN a.v[k] ELSE Null, b.v[k])
                ELSE a.v[k]])
    ELSE IF a.t = "arr" /\ b.t = "arr"
    THEN Arr(a.v \o b.v)
    ELSE IF b.t = "null" THEN a ELSE b

\* Api::json_merge: the value of *a after json_merge(a, b)
json_merge(a, b) ==
    IF a.t = "obj" /\ b.t = "obj"
    THEN Obj([k \in DOMAIN a.v \cup DOMAIN b.v |->
                IF k \in DOMAIN b.v
                THEN json_merge(IF k \in DOMAIN a.v THEN a.v[k] ELSE Null, b.v[k])
                ELSE a.v[k]])
    ELSE IF a.t = "arr" /\ b.t = "arr"
    THEN Arr(a.v \o b.v)
    ELSE b

(***************************************************************************)
(* The values json_merge is applied to.                                    *)
(***************************************************************************)
MergeKeys == {"items", "q"}

ArrOf(S) == {Arr(s) : s \in UNION {[1..n -> S] : n \in 0..MaxArr}}
ObjOf(K, S) == {Obj(f) : f \in UNION {[D -> S] : D \in SUBSET K}}

Scalars == {Null, Bool(TRUE), Num(1), Str("a")}
OA0 == {EmptyObj, EmptyArr}
Leaves == Scalars \cup OA0
Values == Leaves \cup ArrOf(Leaves) \cup ObjOf(MergeKeys, Leaves \cup {Arr(<<Str("a")>>)})

\* trees built only from Objects and Arrays
OA1 == ArrOf(OA0) \cup ObjOf({"items"}, OA0)
OATrees == ArrOf(OA0) \cup ObjOf({"items"}, OA1) \cup ObjOf(MergeKeys, OA0)

RECURSIVE IsOATree(_)
IsOATree(x) ==
    \/ x.t = "obj" /\ \A k \in DOMAIN x.v : IsOATree(x.v[k])
    \/ x.t = "arr" /\ \A i \in DOMAIN x.v : IsOATree(x.v[i])

(***************************************************************************)
(* Cookies.  A set-cookie directive is [name, value, path]; name "" stands *)
(* for a directive Cookie::parse rejects (no pair, or an empty name).  The *)
(* jar maps a cookie name to its [value, path]; CookieJar::add replaces a  *)
(* cookie of the same name.                                                *)
(***************************************************************************)
Directive(n, x, p) == [name |-> n, value |-> x, path |-> p]
Malformed == Directive("", "", "")

\* one name=value pair of a Cookie header
Pair(n, x) == [n |-> n, v |-> x]

\* an add that starts the jar afresh with the new cookie
JarAdd_resets(jar, d) ==
    [n \in {d.name} |-> [value |-> d.value, path |-> d.path]]

\* CookieJar::add of an already parsed cookie
JarAdd(jar, d) ==
    [n \in DOMAIN jar \cup {d.name} |->
        IF n = d.name THEN [value |-> d.value, path |-> d.path] ELSE jar[n]]

\* Api::set_cookies_from_response: the directives are parsed and added in header
\* order; Cookie::parse(..).unwrap() panics at the first one that does not parse
RECURSIVE set_cookies_from_response(_, _)
set_cookies_from_response(jar, directives) ==
    IF directives = << >> THEN [jar |-> jar, panicked |-> FALSE]
    ELSE IF Head(directives).name = "" THEN [jar |-> jar, panicked |-> TRUE]
    ELSE set_cookies_from_response(JarAdd(jar, Head(directives)), Tail(directives))

\* Cookie's Display (c.to_string()): name=value followed by the cookie's attributes
CookieToString(n, c) ==
    <<Pair(n, c.value)>> \o (IF c.path = "" THEN << >> ELSE <<Pair("Path", c.path)>>)

\* Api::cookies_to_string: the cookies' strings joined by "; ", in the jar's
\* iteration order (some fixed order of the names)
RECURSIVE JoinCookies(_, _)
JoinCookies(jar, names) ==
    IF names = {} THEN << >>
    ELSE LET n == CHOOSE x \in names : TRUE
         IN  CookieToString(n, jar[n]) \o JoinCookies(jar, names \ {n})

cookies_to_string(jar) == JoinCookies(jar, DOMAIN jar)

(***************************************************************************)
(* Requests and responses.                                                 *)
(***************************************************************************)
\* the body as text: JSON text (with the Value it parses to), text that is not
\* JSON, or a body resp.text() fails to read
JsonText(x) == [kind |-> "json", json |-> x]
Garbage == [kind |-> "garbage", json |-> NoValue]
Unreadable == [kind |-> "unreadable", json |-> NoValue]

\* send() failed: there is no response
TransportError == [status |-> "transport_error", set_cookie |-> << >>, body |-> Unreadable]
Response(cs, b) == [status |-> "response", set_cookie |-> cs, body |-> b]

\* format only supplied when the caller gave none
WithFormat_if_absent(p) ==
    [k \in DOMAIN p \cup {"format"} |-> IF k \in DOMAIN p THEN p[k] ELSE "json"]

\* Api::query_api_json, lines 201-202: the caller's map cloned, format forced
WithFormat(p) ==
    [k \in DOMAIN p \cup {"format"} |-> IF k = "format" THEN "json" ELSE p[k]]

\* the request as sent: its parameters, Cookie header and method; `seen` is history,
\* the latest value set so far for each cookie name
Request(p, jar, method, seen) ==
    [params |-> p, cookie |-> cookies_to_string(jar), method |-> method, seen |-> seen]

\* Api::query_raw (through query_api_raw) answered by r
query_raw(jar, p, method, seen, r) ==
    IF method \notin {"GET", "POST"}
    THEN [sent |-> << >>, jar |-> jar, status |-> "panic", text |-> Unreadable]
    ELSE LET req == Request(p, jar, method, seen)
             sc == set_cookies_from_response(jar, r.set_cookie)
         IN  IF r.status = "transport_error"
             THEN [sent |-> <<req>>, jar |-> jar, status |-> "Err", text |-> Unreadable]
             ELSE IF sc.panicked
             THEN [sent |-> <<req>>, jar |-> sc.jar, status |-> "panic", text |-> Unreadable]
             ELSE IF r.body.kind = "unreadable"
             THEN [sent |-> <<req>>, jar |-> sc.jar, status |-> "Err", text |-> Unreadable]
             ELSE [sent |-> <<req>>, jar |-> sc.jar, status |-> "Ok", text |-> r.body]

\* the jar updated only once the body has parsed
query_api_json_cookies_after_parse(jar, p, method, seen, r) ==
    LET t == query_raw(jar, WithFormat(p), method, seen, r)
    IN  [sent |-> t.sent,
         jar |-> IF t.status = "Ok" /\ t.text.kind # "json" THEN jar ELSE t.jar,
         status |-> IF t.status = "Ok" /\ t.text.kind # "json" THEN "Err" ELSE t.status,
         value |-> IF t.status = "Ok" /\ t.text.kind = "json" THEN t.text.json ELSE NoValue]

\* Api::query_api_json answered by r: serde_json::from_str on the text
query_api_json(jar, p, method, seen, r) ==
    LET t == query_raw(jar, WithFormat(p), method, seen, r)
    IN  [sent |-> t.sent,
         jar |-> t.jar,
         status |-> IF t.status = "Ok" /\ t.text.kind # "json" THEN "Err" ELSE t.status,
         value |-> IF t.status = "Ok" /\ t.text.kind = "json" THEN t.text.json ELSE NoValue]

(***************************************************************************)
(* The pieces of the loop of Api::get_query_api_json_all.                  *)
(***************************************************************************)
\* lines 168-171: the caller's parameters, overridden by the entries of cont
ParamsCont(p, c) ==
    [k \in DOMAIN p \cup DOMAIN c |-> IF k \in DOMAIN c THEN c[k] ELSE p[k]]

\* the loop left when a page gave no parameter to send back
HasMore_needs_entries(conti) ==
    conti.t = "obj" /\ \E k \in DOMAIN conti.v : k # "continue"

\* the loop goes on whenever the page has any "continue" value
HasMore_any_value(conti) == conti.t # "null"

\* line 176: the loop goes on when result["continue"] is an Object
HasMore(conti) == conti.t = "obj"

\* line 180: v.as_str().unwrap() panics on an entry, other than "continue", that
\* is no string
ContPanics(conti) ==
    \E k \in Keys(conti) \ {"continue"} : conti.v[k].t # "str"

\* lines 178-183: the new cont, the string entries except the key "continue"
NextCont(conti) ==
    [k \in Keys(conti) \ {"continue"} |-> conti.v[k].v]

\* the entries of the page before kept in cont
ContCleared_kept(c) == c

\* line 173: cont.clear()
ContCleared(c) == EmptyMap

\* the "continue" key left in the result
RemoveContinue_forgotten(x) == x

\* line 190: ret.as_object_mut().unwrap().remove("continue")
RemoveContinue(x) == Obj([k \in DOMAIN x.v \ {"continue"} |-> x.v[k]])

\* the pages merged so far handed back when a request fails
OnRequestError_partial(acc) ==
    [pc |-> "done", outcome |-> "Ok", returned |-> acc]

\* line 172: the `?` returns the request's error to the caller of fetch_all
OnRequestError(acc) ==
    [pc |-> "done", outcome |-> "Err", returned |-> NoValue]

\* at every place where both trees hold a value, both hold Objects or both hold Arrays
RECURSIVE SameKinds(_, _)
SameKinds(a, b) ==
    \/ a.t = "arr" /\ b.t = "arr"
    \/ /\ a.t = "obj" /\ b.t = "obj"
       /\ \A k \in DOMAIN a.v \cap DOMAIN b.v : SameKinds(a.v[k], b.v[k])

(***************************************************************************)
(* The state of the Api before any call.                                   *)
(***************************************************************************)
ApiIdle ==
    /\ cookie_jar = EmptyMap
    /\ call = "none"
    /\ pc = "idle"
    /\ params = EmptyMap
    /\ cont = EmptyMap
    /\ ret = EmptyObj
    /\ outcome = "none"
    /\ returned = NoValue
    /\ requests = << >>
    /\ pages = << >>
    /\ lastSet = EmptyMap

ServerIdle == script = << >>

MergeIdle ==
    /\ mTarget = EmptyObj
    /\ mIncoming = << >>
    /\ mStart = <<EmptyObj, << >> >>

(***************************************************************************)
(* MWuser.                                                                 *)
(***************************************************************************)
\* a JSON number that is no integer (serde_json keeps it as a float)
Float(x) == [t |-> "float", v |-> x]

\* MWuser::new
MWuser_new == [lgusername |-> "", lguserid |-> 0, is_logged_in |-> FALSE]

\* Value::as_str: Some for a String only
IsStr(x) == x.t = "str"

\* Value::as_u64: Some for an integer that is not negative only
IsU64(x) == x.t = "num" /\ x.v >= 0

\* `login["result"] == "Success"`
IsSuccess(login) == Index(login, "result") = Str("Success")

\* a set_from_login that takes 0 for a missing lguserid
set_from_login_id_defaulted(u, login) ==
    IF IsSuccess(login)
    THEN IF ~IsStr(Index(login, "lgusername"))
         THEN [user |-> u, res |-> "Err"]
         ELSE [user |-> [lgusername |-> Index(login, "lgusername").v,
                         lguserid |-> IF IsU64(Index(login, "lguserid"))
                                      THEN Index(login, "lguserid").v ELSE 0,
                         is_logged_in |-> TRUE],
               res |-> "Ok"]
    ELSE [user |-> [u EXCEPT !.is_logged_in = FALSE], res |-> "Ok"]

\* MWuser::set_from_login: the record after the call and what the call returns.  The
\* fields are assigned one by one, so the username is already stored when the id
\* is found missing
set_from_login(u, login) ==
    IF IsSuccess(login)
    THEN IF ~IsStr(Index(login, "lgusername"))
         THEN [user |-> u, res |-> "Err"]
         ELSE IF ~IsU64(Index(login, "lguserid"))
         THEN [user |-> [u EXCEPT !.lgusername = Index(login, "lgusername").v],
               res |-> "Err"]
         ELSE [user |-> [lgusername |-> Index(login, "lgusername").v,
                         lguserid |-> Index(login, "lguserid").v,
                         is_logged_in |-> TRUE],
               res |-> "Ok"]
    ELSE [user |-> [u EXCEPT !.is_logged_in = FALSE], res |-> "Ok"]

LoginIdle ==
    /\ user = MWuser_new
    /\ loginIn = NoValue
    /\ loginOut = "none"
    /\ userBefore = MWuser_new
    /\ okLogin = NoValue

\* the login values set_from_login is called with
LoginValues ==
    ObjOf({"result"}, {Str("Success"), Str("Failed")})
    \cup { Obj("result" :> res @@ "lgusername" :> n) :
              res \in {Str("Success"), Str("Failed")}, n \in {Str("alice"), Str("bob"), Num(7)} }
    \cup { Obj("result" :> Str("Success") @@ "lguserid" :> i) : i \in {Num(1), Num(2)} }
    \cup { Obj("result" :> res @@ "lgusername" :> n @@ "lguserid" :> i) :
              res \in {Str("Success"), Str("Failed"), Num(1)},
              n \in {Str("alice"), Str("bob")},
              i \in {Num(0), Num(1), Num(2), Num(-1), Float("1.5"), Str("1")} }
    \cup {Null, Str("Success")}

\* the history of one set_from_login call
LoginHistory(login, out) ==
    /\ loginIn' = login
    /\ loginOut' = out.res
    /\ userBefore' = user
    /\ okLogin' = IF IsSuccess(login) /\ out.res = "Ok" THEN login ELSE okLogin

\* one call self.user.set_from_login(&login)
SetFromLogin(login) ==
    /\ user' = set_from_login(user, login).user
    /\ LoginHistory(login, set_from_login(user, login))
    /\ UNCHANGED <<apiVars, mergeVars, serverVars>>

InitLogin == ApiIdle /\ MergeIdle /\ LoginIdle /\ ServerIdle

NextLogin == \E login \in LoginValues : SetFromLogin(login)

SpecLogin == InitLogin /\ [][NextLogin]_vars

(***************************************************************************)
(* The inputs: the caller's parameter maps and the server's responses.     *)
(***************************************************************************)
BaseParams ==
    { "action" :> "query" @@ "format" :> "xml",
      "action" :> "query" @@ "offset" :> "0" }

Methods == {"GET", "POST", "PUT"}

PageMore == Obj("items" :> Arr(<<Str("a")>>) @@ "continue" :> Obj("offset" :> Str("10")))
PageLast == Obj("items" :> Arr(<<Str("b")>>))
PageContEmpty == Obj("items" :> Arr(<<Str("b")>>) @@ "continue" :> EmptyObj)
PageContString == Obj("items" :> Arr(<<Str("a")>>) @@ "continue" :> Str("x"))
PageContNested ==
    Obj("items" :> Arr(<<Str("a")>>) @@ "continue" :> Obj("offset" :> Obj("n" :> Str("1"))))
PageContMW ==
    Obj("items" :> Obj("k" :> Str("v"))
        @@ "continue" :> Obj("continue" :> Str("-||") @@ "format" :> Str("xml")))
PageContSelf == Obj("continue" :> Obj("continue" :> EmptyObj))
PageArray == Arr(<<Str("a")>>)
PageScalar == Str("a")

\* the answers to action=login
LoginOk ==
    Obj("login" :> Obj("result" :> Str("Success") @@ "lgusername" :> Str("alice")
                       @@ "lguserid" :> Num(1)))
LoginFailed == Obj("login" :> Obj("result" :> Str("Failed")))

LoginParams ==
    "action" :> "login" @@ "lgname" :> "alice" @@ "lgpassword" :> "pw" @@ "lgtoken" :> "t"

LoginResponses ==
    { TransportError,
      Response(<<Directive("sid", "1", "")>>, JsonText(LoginOk)),
      Response(<< >>, JsonText(LoginFailed)) }

Bodies ==
    { PageMore, PageLast, EmptyObj, PageContEmpty, PageContString, PageContNested,
      PageContMW, PageContSelf, PageArray, PageScalar }

SetCookieLists ==
    { <<Directive("sid", "1", "")>>,
      <<Directive("sid", "1", ""), Directive("sid", "2", "/")>>,
      <<Directive("Path", "x", "")>>,
      <<Malformed>> }

Responses ==
    {TransportError}
    \cup {Response(<< >>, b) : b \in {JsonText(x) : x \in Bodies} \cup {Garbage, Unreadable}}
    \cup {Response(cs, JsonText(PageMore)) : cs \in SetCookieLists}
    \cup { Response(<<Directive("sid", "1", "")>>, Garbage),
           Response(<<Directive("sid", "2", "/")>>, JsonText(PageLast)) }

\* history: the latest value set for each cookie name once the directives of one
\* more response are counted
LatestSet(seen, directives) ==
    LET named == {i \in DOMAIN directives : directives[i].name # ""}
        last(n) == CHOOSE i \in named :
                      /\ directives[i].name = n
                      /\ \A j \in named : directives[j].name = n => j <= i
    IN  [n \in DOMAIN seen \cup {directives[i].name : i \in named} |->
            IF \E i \in named : directives[i].name = n
            THEN directives[last(n)].value
            ELSE seen[n]]

(***************************************************************************)
(* The operations of the Api.                                              *)
(***************************************************************************)
Init == ApiIdle /\ MergeIdle /\ LoginIdle /\ ServerIdle

CanCall == pc = "idle"

\* get_query_api_json_all(&params) entered: lines 165-166
Call(p) ==
    /\ CanCall
    /\ call' = "fetch_all"
    /\ pc' = "loop"
    /\ params' = p
    /\ cont' = EmptyMap
    /\ ret' = EmptyObj
    /\ outcome' = "none"
    /\ returned' = NoValue
    /\ requests' = << >>
    /\ pages' = << >>
    /\ UNCHANGED <<cookie_jar, lastSet, mergeVars, loginVars>>

\* one turn of the loop of get_query_api_json_all, lines 167-189, its request
\* answered by r, and lines 190-191 when the loop is left
FetchPage(r) ==
    /\ pc = "loop"
    /\ Len(requests) < MaxPages
    /\ LET q == query_api_json(cookie_jar, ParamsCont(params, cont), "GET", lastSet, r)
           conti == Index(q.value, "continue")
           merged == json_merge(ret, q.value)
           panic == [pc |-> "done", outcome |-> "panic", returned |-> NoValue]
           next ==
               IF q.status = "panic" THEN panic
               ELSE IF q.status = "Err" THEN OnRequestError(ret)
               ELSE IF HasMore(conti)
               THEN (IF ContPanics(conti) THEN panic
                     ELSE [pc |-> "loop", outcome |-> "none", returned |-> NoValue])
               ELSE IF merged.t # "obj" THEN panic
               ELSE [pc |-> "done", outcome |-> "Ok", returned |-> RemoveContinue(merged)]
       IN  /\ pc' = next.pc
           /\ outcome' = next.outcome
           /\ returned' = next.returned
           /\ requests' = requests \o q.sent
           /\ pages' = Append(pages, r)
           /\ cookie_jar' = q.jar
           /\ lastSet' = LatestSet(lastSet, r.set_cookie)
           /\ ret' = IF q.status # "Ok" THEN ret
                     ELSE IF next.outcome = "Ok" THEN next.returned
                     ELSE merged
           /\ cont' = IF q.status # "Ok" THEN cont
                      ELSE IF next.pc = "loop"
                      THEN ParamsCont(ContCleared(cont), NextCont(conti))
                      ELSE ContCleared(cont)
    /\ UNCHANGED <<call, params, mergeVars, loginVars>>

\* one call query_api_json(&params, method) from outside the loop (get_query_api_json,
\* post_query_api_json, load_site_info, login), answered by r
Query(p, method, r) ==
    /\ CanCall
    /\ LET q == query_api_json(cookie_jar, p, method, lastSet, r)
       IN  /\ call' = "query"
           /\ pc' = "done"
           /\ params' = p
           /\ cont' = EmptyMap
           /\ ret' = EmptyObj
           /\ outcome' = q.status
           /\ returned' = q.value
           /\ requests' = q.sent
           /\ pages' = IF q.sent = << >> THEN << >> ELSE <<r>>
           /\ cookie_jar' = q.jar
           /\ lastSet' = IF q.sent = << >> THEN lastSet ELSE LatestSet(lastSet, r.set_cookie)
    /\ UNCHANGED <<mergeVars, loginVars, serverVars>>

\* Api::login once get_token has returned the token, lines 298-305: the POST request,
\* answered by r, and what is done with its result
Login(r) ==
    /\ CanCall
    /\ LET q == query_api_json(cookie_jar, LoginParams, "POST", lastSet, r)
           login == Index(q.value, "login")
           success == q.status = "Ok" /\ IsSuccess(login)
       IN  /\ call' = "login"
           /\ pc' = "done"
           /\ params' = LoginParams
           /\ cont' = EmptyMap
           /\ ret' = EmptyObj
           /\ outcome' = IF q.status # "Ok" THEN q.status
                         ELSE IF success THEN set_from_login(user, login).res
                         ELSE "panic"
           /\ returned' = NoValue
           /\ user' = IF success THEN set_from_login(user, login).user ELSE user
           /\ requests' = q.sent
           /\ pages' = <<r>>
           /\ cookie_jar' = q.jar
           /\ lastSet' = LatestSet(lastSet, r.set_cookie)
    /\ UNCHANGED <<mergeVars, loginHistory, serverVars>>

\* the call has returned to its caller: its locals are gone, the Api stays
Return ==
    /\ pc = "done"
    /\ outcome # "panic"
    /\ call' = "none"
    /\ pc' = "idle"
    /\ params' = EmptyMap
    /\ cont' = EmptyMap
    /\ ret' = EmptyObj
    /\ outcome' = "none"
    /\ returned' = NoValue
    /\ requests' = << >>
    /\ pages' = << >>
    /\ UNCHANGED <<cookie_jar, lastSet, mergeVars, loginVars, serverVars>>

Next ==
    \/ Return
    \/ \E p \in BaseParams : Call(p) /\ UNCHANGED serverVars
    \/ \E r \in Responses : FetchPage(r) /\ UNCHANGED serverVars
    \/ \E p \in BaseParams, method \in Methods, r \in Responses : Query(p, method, r)
    \/ \E r \in LoginResponses : Login(r)

Spec == Init /\ [][Next]_vars


(***************************************************************************)
(* What a response is, read off the response alone.                        *)
(***************************************************************************)
CookiesParse(r) == \A i \in DOMAIN r.set_cookie : r.set_cookie[i].name # ""

\* the request answered by r returns Ok(page)
Succeeded(r) == r.status = "response" /\ CookiesParse(r) /\ r.body.kind = "json"

\* the request answered by r returns Err: no response, or a body that is not read
\* or does not parse as JSON
Failed(r) ==
    \/ r.status = "transport_error"
    \/ r.status = "response" /\ CookiesParse(r) /\ r.body.kind # "json"

PageOf(r) == r.body.json
IsObjectPage(r) == Succeeded(r) /\ PageOf(r).t = "obj"
HasContField(r) == "continue" \in Keys(PageOf(r))
ContOf(r) == Index(PageOf(r), "continue")

\* a non-empty continue object all of whose values are strings
StringValued(c) == c.t = "obj" /\ Keys(c) # {} /\ \A k \in Keys(c) : c.v[k].t = "str"

\* the keys of a page other than "continue"
DataOf(x) == Obj([k \in Keys(x) \ {"continue"} |-> x.v[k]])

RECURSIVE FoldData(_, _)
FoldData(acc, rs) ==
    IF rs = << >> THEN acc
    ELSE FoldData(json_merge(acc, DataOf(PageOf(Head(rs)))), Tail(rs))

LastPage == pages[Len(pages)]
InFetchAll == call = "fetch_all"

(***************************************************************************)
(* get_query_api_json_all against a server that answers every request and *)
(* has a last page: it serves a fixed list of pages, each but the last     *)
(* with a continue object of string values, the last without the field.    *)
(* The loop of lines 167-189 is straight-line code around a blocking      *)
(* request, so a turn that can be taken is taken: weak fairness of Serve.  *)
(***************************************************************************)
ContinuingPages == {PageMore, PageContMW, PageContEmpty}
FinalPages == {PageLast, EmptyObj}

Served(bodies) == {Response(<< >>, JsonText(x)) : x \in bodies}

Scripts ==
    UNION { { s \in [1..n -> Served(ContinuingPages \cup FinalPages)] :
                \A i \in 1..n : PageOf(s[i]) \in FinalPages <=> i = n }
            : n \in 1..MaxPages }

CallServed(p, s) == Call(p) /\ script' = s

Serve == script # << >> /\ FetchPage(Head(script)) /\ script' = Tail(script)

InitLive == Init

NextLive ==
    \/ Return
    \/ \E p \in BaseParams, s \in Scripts : CallServed(p, s)
    \/ Serve

SpecLive == InitLive /\ [][NextLive]_vars /\ WF_vars(Serve)

\* C17: against a server that answers every request and has a last page, a call of
\* get_query_api_json_all that is in its loop ends with Ok; and the loop has no
\* limit of its own: while every page received had a continue object the call is
\* still in the loop.
C17_FetchAllReturns ==
    /\ (InFetchAll /\ pc = "loop") ~> (InFetchAll /\ pc = "done" /\ outcome = "Ok")
    /\ []((InFetchAll /\ \A i \in DOMAIN pages : ContOf(pages[i]).t = "obj")
            => pc = "loop")

C17_Witness ==
    /\ InFetchAll
    /\ pc = "done"
    /\ outcome = "Ok"
    /\ script = << >>
    /\ Len(pages) = 3
    /\ PageOf(pages[1]) = PageContEmpty
    /\ PageOf(pages[2]) = PageMore
    /\ PageOf(pages[3]) = PageLast

\* C1: when every page is a successful top-level object, every page but the last
\* carries a non-empty string-valued "continue" object and the last carries none,
\* fetch_all returns Ok with the pages' non-"continue" keys deep-merged in order
\* into an empty object, and the result has no top-level "continue" key.
C1_FetchAllMergesPages ==
    (/\ InFetchAll
     /\ pages # << >>
     /\ \A i \in DOMAIN pages : IsObjectPage(pages[i])
     /\ \A i \in 1..(Len(pages) - 1) : StringValued(ContOf(pages[i]))
     /\ ~HasContField(LastPage)) =>
        /\ pc = "done"
        /\ outcome = "Ok"
        /\ returned = FoldData(EmptyObj, pages)
        /\ "continue" \notin Keys(returned)
        /\ Len(requests) = Len(pages)

C1_Witness ==
    /\ InFetchAll
    /\ pages = <<Response(<< >>, JsonText(PageMore)), Response(<< >>, JsonText(PageLast))>>
    /\ outcome = "Ok"
    /\ returned = Obj("items" :> Arr(<<Str("a"), Str("b")>>))
    /\ Len(requests) = 2
    /\ requests[2].params["offset"] = "10"

\* C2 as claimed: a fetch_all call that returns has sent requests up to the first
\* page that lacks a "continue" field: its last page has none, the earlier ones do.
C2_StopsAtFirstPageWithoutField ==
    (InFetchAll /\ outcome = "Ok") =>
        /\ ~HasContField(LastPage)
        /\ \A i \in 1..(Len(pages) - 1) : HasContField(pages[i])

\* the loop is left at r: the request fails or aborts, the page's "continue" value
\* is absent or no Object, or it holds a non-string under a key other than "continue"
Stops(r) ==
    \/ ~Succeeded(r)
    \/ ContOf(r).t # "obj"
    \/ \E k \in Keys(ContOf(r)) \ {"continue"} : ContOf(r).v[k].t # "str"

\* C2 amended: the requests sent by one fetch_all call are one per page up to the
\* first page at which the loop stops (a failed or aborted request, a "continue"
\* value that is absent or not an Object, a non-string continuation entry); no
\* request follows that page, and the call goes on after any other page.
C2_RequestsUntilLoopStops ==
    InFetchAll =>
        /\ Len(requests) = Len(pages)
        /\ \A i \in 1..(Len(pages) - 1) : ~Stops(pages[i])
        /\ pages # << >> => (Stops(LastPage) <=> pc = "done")

C2_Witness ==
    /\ InFetchAll
    /\ pc = "done"
    /\ outcome = "Ok"
    /\ Len(requests) = 1
    /\ pages = <<Response(<< >>, JsonText(PageContString))>>

\* a page whose "continue" object has an entry that is no string
NonStringEntry(r) ==
    /\ IsObjectPage(r)
    /\ ContOf(r).t = "obj"
    /\ \E k \in Keys(ContOf(r)) : ContOf(r).v[k].t # "str"

\* C3 as claimed: a page whose "continue" object contains a non-string entry makes
\* fetch_all return an error value, and no request follows that page.
C3_NonStringEntryIsError ==
    InFetchAll =>
        \A i \in DOMAIN pages :
            NonStringEntry(pages[i]) =>
                /\ i = Len(pages)
                /\ Len(requests) = Len(pages)
                /\ pc = "done"
                /\ outcome = "Err"

\* a page whose continuation is absent, an empty object, or no object
EndsPaging(r) ==
    /\ IsObjectPage(r)
    /\ \/ ~HasContField(r)
       \/ ContOf(r) = EmptyObj
       \/ ContOf(r).t # "obj"

\* C4 as claimed: a page whose continuation is absent, empty or not an object ends
\* the loop: fetch_all returns the accumulator and sends no further request.
C4_EndsOnAbsentEmptyOrNonObject ==
    InFetchAll =>
        \A i \in DOMAIN pages :
            EndsPaging(pages[i]) =>
                /\ i = Len(pages)
                /\ Len(requests) = Len(pages)
                /\ pc = "done"
                /\ outcome = "Ok"

\* C5: when the request for a page fails, fetch_all returns the error at once: the
\* failed page is the last one, one request was sent per page (no retry, none
\* after), and the caller gets no value, the merged pages included.
C5_RequestErrorPropagates ==
    InFetchAll =>
        \A i \in DOMAIN pages :
            Failed(pages[i]) =>
                /\ i = Len(pages)
                /\ Len(requests) = Len(pages)
                /\ pc = "done"
                /\ outcome = "Err"
                /\ returned = NoValue

C5_Witness ==
    /\ InFetchAll
    /\ pages = <<Response(<< >>, JsonText(PageMore)), TransportError>>
    /\ Len(requests) = 2
    /\ "items" \in Keys(ret)
    /\ outcome = "Err"
    /\ returned = NoValue

\* the pairs of a Cookie header that carry the name n
PairsNamed(header, n) ==
    LET named(t) == t.n = n IN SelectSeq(header, named)

\* C6 as claimed: the Cookie header of every request holds exactly one pair for
\* each cookie name set by an earlier response, with the value set last.
C6_HeaderHasOnePairPerName ==
    \A i \in DOMAIN requests :
        \A n \in DOMAIN requests[i].seen :
            PairsNamed(requests[i].cookie, n) = <<Pair(n, requests[i].seen[n])>>

\* C7: every request sent through query_api_json, the pages of fetch_all included,
\* carries format=json whatever the caller or a continuation gave for "format",
\* and the caller's map stays as it was while the call runs.
C7_FormatForced ==
    /\ [](\A i \in DOMAIN requests :
            /\ "format" \in DOMAIN requests[i].params
            /\ requests[i].params["format"] = "json")
    /\ [][pc = "loop" => params' = params]_vars

C7_Witness ==
    /\ InFetchAll
    /\ params = ("action" :> "query" @@ "format" :> "xml")
    /\ Len(requests) = 2
    /\ pages[1] = Response(<< >>, JsonText(PageContMW))
    /\ requests[2].params["format"] = "json"
    /\ requests[2].params["action"] = "query"

\* C12 as claimed: during a fetch_all call the accumulator is always an Object, and
\* a page whose top level is no Object ends the call with an error value.
C12_AccumulatorStaysObject ==
    InFetchAll =>
        /\ ret.t = "obj"
        /\ \A i \in DOMAIN pages :
              (Succeeded(pages[i]) /\ PageOf(pages[i]).t # "obj") => outcome = "Err"

\* the parameters the loop gave to the request for page i, but for "format", which
\* query_api_json sets on its own copy
SentParams(i) == requests[i].params
EngineKeys(i) == DOMAIN SentParams(i) \ {"format"}

\* C13: the parameters of the request for page k+1 come from the caller's map and
\* the continuation of page k only: nothing else is sent (a key of an earlier page
\* that page k does not repeat is gone), a continuation entry that is echoed
\* overrides the caller's value, and every other key of the caller's map is there
\* unchanged.  The first request carries the caller's map.
C13_ParamsFromBaseAndLastPage ==
    InFetchAll =>
        \A i \in DOMAIN requests :
            LET c == IF i = 1 THEN EmptyObj ELSE ContOf(pages[i - 1])
            IN  /\ EngineKeys(i) \subseteq DOMAIN params \cup Keys(c)
                /\ \A x \in DOMAIN params \ ({"format"} \cup Keys(c)) :
                      x \in DOMAIN SentParams(i) /\ SentParams(i)[x] = params[x]
                /\ \A x \in EngineKeys(i) \cap Keys(c) :
                      x # "continue" => SentParams(i)[x] = c.v[x].v

C13_Witness ==
    /\ InFetchAll
    /\ Len(requests) = 3
    /\ params = ("action" :> "query" @@ "format" :> "xml")
    /\ PageOf(pages[1]) = PageMore
    /\ PageOf(pages[2]) = PageContMW
    /\ SentParams(2)["offset"] = "10"
    /\ "offset" \notin DOMAIN SentParams(3)
    /\ SentParams(3)["action"] = "query"

\* C14 as claimed: every entry of the continuation object of page k is a parameter,
\* with the same value, of the request for page k+1.
C14_EveryEntryEchoed ==
    InFetchAll =>
        \A i \in DOMAIN requests \ {1} :
            \A x \in Keys(ContOf(pages[i - 1])) :
                /\ x \in DOMAIN SentParams(i)
                /\ SentParams(i)[x] = ContOf(pages[i - 1]).v[x].v

\* C16: cookies are stored before the body is parsed: when a response's body is not
\* JSON the request returns an error and the jar holds the cookies that response
\* set, and every request carries, for each cookie name set so far, the pair with
\* the value set last.
C16_CookiesStoredBeforeParse ==
    /\ (pc = "done" /\ pages # << >> /\ LastPage.status = "response"
           /\ CookiesParse(LastPage) /\ LastPage.body.kind = "garbage") =>
          /\ outcome = "Err"
          /\ \A j \in DOMAIN LastPage.set_cookie :
                LastPage.set_cookie[j].name \in DOMAIN cookie_jar
          /\ \A n \in DOMAIN cookie_jar : cookie_jar[n].value = lastSet[n]
    /\ \A i \in DOMAIN requests :
          \A n \in DOMAIN requests[i].seen :
              PairsNamed(requests[i].cookie, n) # << >>
              /\ Head(PairsNamed(requests[i].cookie, n)) = Pair(n, requests[i].seen[n])

C16_Witness ==
    /\ pc = "done"
    /\ outcome = "Err"
    /\ Len(requests) = 1
    /\ requests[1].cookie = << >>
    /\ LastPage = Response(<<Directive("sid", "1", "")>>, Garbage)
    /\ cookie_jar = ("sid" :> [value |-> "1", path |-> ""])

\* the step receives the response r
Receives(r) == pages' # pages /\ pages' # << >> /\ pages'[Len(pages')] = r

\* C18: a request that gets no response leaves the cookie jar and the user record
\* as they were, and no step of the request or fetch_all path takes a cookie name
\* out of the jar.
C18_SessionChangesOnResponseOnly ==
    [][/\ DOMAIN cookie_jar \subseteq DOMAIN cookie_jar'
       /\ Receives(TransportError) => (cookie_jar' = cookie_jar /\ user' = user)
       /\ pages' = pages => cookie_jar' = cookie_jar]_vars

C18_Witness ==
    /\ call = "login"
    /\ pc = "done"
    /\ outcome = "Err"
    /\ LastPage = TransportError
    /\ user.is_logged_in
    /\ DOMAIN cookie_jar = {"sid", "Path"}
    /\ requests[Len(requests)].cookie # << >>

(***************************************************************************)
(* json_merge applied to bounded inputs: one target, one incoming value,   *)
(* or three Object/Array-only pages folded into an empty accumulator.      *)
(***************************************************************************)
InitMerge ==
    /\ ApiIdle
    /\ LoginIdle
    /\ ServerIdle
    /\ \/ \E a \in Values, b \in Values :
            /\ mTarget = a
            /\ mIncoming = <<b>>
            /\ mStart = <<a, <<b>> >>
       \/ \E p1 \in OATrees, p2 \in OATrees, p3 \in OATrees :
            /\ mTarget = EmptyObj
            /\ mIncoming = <<p1, p2, p3>>
            /\ mStart = <<EmptyObj, <<p1, p2, p3>> >>

\* one call self.json_merge(&mut target, incoming)
MergeCall ==
    /\ mIncoming # << >>
    /\ mTarget' = json_merge(mTarget, Head(mIncoming))
    /\ mIncoming' = Tail(mIncoming)
    /\ UNCHANGED <<mStart, apiVars, loginVars, serverVars>>

SpecMerge == InitMerge /\ [][MergeCall]_vars

MergeDone == mIncoming = << >>
MergedOne == MergeDone /\ Len(mStart[2]) = 1
MergedThree == MergeDone /\ Len(mStart[2]) = 3
StartA == mStart[1]
StartB == mStart[2][1]
P1 == mStart[2][1]
P2 == mStart[2][2]
P3 == mStart[2][3]

\* C8: for arrays A and B, json_merge(A, B) leaves the target equal to A followed
\* by B, in order, nothing dropped or merged, so its length is len(A) + len(B).
C8_ArrayMergeConcatenates ==
    (MergedOne /\ StartA.t = "arr" /\ StartB.t = "arr") =>
        /\ mTarget.t = "arr"
        /\ mTarget.v = StartA.v \o StartB.v
        /\ Len(mTarget.v) = Len(StartA.v) + Len(StartB.v)

C8_Witness ==
    /\ MergedOne
    /\ StartA = Arr(<<EmptyObj>>)
    /\ StartB = Arr(<<EmptyObj>>)
    /\ mTarget = Arr(<<EmptyObj, EmptyObj>>)

\* C9: for a pair (A, B) that is neither Object/Object nor Array/Array,
\* json_merge(A, B) leaves the target exactly equal to B, whatever A was.
C9_MismatchReplaces ==
    (/\ MergedOne
     /\ ~(StartA.t = "obj" /\ StartB.t = "obj")
     /\ ~(StartA.t = "arr" /\ StartB.t = "arr")) => mTarget = StartB

C9_Witness ==
    /\ MergedOne
    /\ StartA = Arr(<<Str("a")>>)
    /\ StartB = Null
    /\ mTarget = Null

\* C10 as claimed: for Object/Array-only pages P1, P2, P3, folding them in order
\* into an empty accumulator gives merge(P1, merge(P2, P3)) applied to an empty
\* accumulator.
C10_AssociativeAsClaimed ==
    (MergedThree /\ IsOATree(P1) /\ IsOATree(P2) /\ IsOATree(P3)) =>
        mTarget = json_merge(EmptyObj, json_merge(P1, json_merge(P2, P3)))

\* C10 amended: the same equality for Object/Array-only pages in which an Object
\* never meets an Array: wherever two of the pages both hold a value, both hold
\* Objects or both hold Arrays.
C10_AssociativeOnSameKinds ==
    (/\ MergedThree
     /\ IsOATree(P1) /\ IsOATree(P2) /\ IsOATree(P3)
     /\ SameKinds(P1, P2) /\ SameKinds(P2, P3) /\ SameKinds(P1, P3)) =>
        mTarget = json_merge(EmptyObj, json_merge(P1, json_merge(P2, P3)))

C10_Witness ==
    /\ MergedThree
    /\ SameKinds(P1, P2) /\ SameKinds(P2, P3) /\ SameKinds(P1, P3)
    /\ P1 = Obj("items" :> Arr(<<EmptyObj>>))
    /\ P2 = Obj("items" :> EmptyArr @@ "q" :> EmptyArr)
    /\ P3 = Obj("items" :> Arr(<<EmptyArr>>))
    /\ mTarget = Obj("items" :> Arr(<<EmptyObj, EmptyArr>>) @@ "q" :> EmptyArr)

\* C15: for objects A and B, after json_merge(A, B) the target's keys are the keys
\* of A and of B; a key of A alone keeps its value, a key of B alone has B's value,
\* and a key of both holds the merge of A's value with B's value.
C15_ObjectMergeByKey ==
    (MergedOne /\ StartA.t = "obj" /\ StartB.t = "obj") =>
        /\ mTarget.t = "obj"
        /\ DOMAIN mTarget.v = DOMAIN StartA.v \cup DOMAIN StartB.v
        /\ \A k \in DOMAIN StartA.v \ DOMAIN StartB.v : mTarget.v[k] = StartA.v[k]
        /\ \A k \in DOMAIN StartB.v \ DOMAIN StartA.v : mTarget.v[k] = StartB.v[k]
        /\ \A k \in DOMAIN StartA.v \cap DOMAIN StartB.v :
              mTarget.v[k] = json_merge(StartA.v[k], StartB.v[k])

C15_Witness ==
    /\ MergedOne
    /\ StartA = Obj("items" :> Arr(<<Str("a")>>))
    /\ StartB = Obj("items" :> Arr(<<Str("a")>>) @@ "q" :> Str("a"))
    /\ mTarget = Obj("items" :> Arr(<<Str("a"), Str("a")>>) @@ "q" :> Str("a"))

LoginName == Index(loginIn, "lgusername")
LoginId == Index(loginIn, "lguserid")
LoginCalled == loginOut # "none"

\* C11: set_from_login returns an error when the result is "Success" and the login
\* lacks a string lgusername or a non-negative integer lguserid; with both present
\* it stores them and sets is_logged_in; for any other result it clears is_logged_in
\* and returns Ok.
C11_SetFromLogin ==
    LoginCalled =>
        /\ (IsSuccess(loginIn) /\ ~(IsStr(LoginName) /\ IsU64(LoginId))) => loginOut = "Err"
        /\ (IsSuccess(loginIn) /\ IsStr(LoginName) /\ IsU64(LoginId)) =>
               /\ loginOut = "Ok"
               /\ user = [lgusername |-> LoginName.v, lguserid |-> LoginId.v,
                          is_logged_in |-> TRUE]
        /\ ~IsSuccess(loginIn) => (loginOut = "Ok" /\ ~user.is_logged_in)

C11_Witness ==
    /\ loginIn = Obj("result" :> Str("Success") @@ "lgusername" :> Str("alice")
                     @@ "lguserid" :> Num(-1))
    /\ loginOut = "Err"
    /\ userBefore.is_logged_in

\* C19 as claimed: a set_from_login call that returns an error leaves the user record
\* as it was, so a record with is_logged_in = TRUE holds the username and the id of
\* one and the same accepted login.
C19_ErrorLeavesUserAlone ==
    /\ loginOut = "Err" => user = userBefore
    /\ user.is_logged_in =>
          /\ okLogin # NoValue
          /\ user.lgusername = Index(okLogin, "lgusername").v
          /\ user.lguserid = Index(okLogin, "lguserid").v

====
